---- MODULE Spec2Model ----
(***************************************************************************)
(* Model of the synthetic e-commerce pipeline:                             *)
(*   scripts/generate_synthetic_data.py  (the Generator)                   *)
(*   scripts/ingest_to_sqlite.py         (the Loader)                      *)
(* The two scripts share nothing but CSV files, so each has its own        *)
(* specification (SpecGen, SpecLoad) over the variables of this module.    *)
(*                                                                         *)
(* Money is counted in mills (1/1000 of a currency unit) so that rounding  *)
(* to two decimals is a real operation.  Timestamps are whole hours.       *)
(* The `random` module, Faker's generator and os.urandom are three         *)
(* separate pseudo-random streams; only the first two are set by --seed.   *)
(***************************************************************************)
EXTENDS Integers, Sequences, FiniteSets, TLC

VARIABLES
    \* ---- Generator process ----
    args,         \* argparse.Namespace of the Generator
    gpc,          \* position of the Generator's main()
    rng,          \* state of the global `random` module
    fakeRng,      \* state of Faker's shared random generator
    urandom,      \* state of the OS entropy source read by uuid.uuid4()
    now,          \* datetime.now(UTC) read by generate_orders
    customers, products, orders, order_items, payments,
    totals,       \* dict `totals` of generate_payments
    cur,          \* index of the loop in progress
    todo,         \* iterations left of the inner loop of generate_order_items
    out,          \* the output directory: file name -> file or NoFile
    run,          \* 1 for the first Generator process, 2 for the second
    prev,         \* collections of the first run, kept for comparison
    \* ---- Loader process ----
    csv,          \* the raw directory: file name -> file or NoFile
    keep_existing,
    lpc,          \* position of the Loader's main()
    db,           \* the database file as committed on disk, or NoFile
    txn,          \* the connection's view including uncommitted inserts
    db0,          \* the database file as it was when the run connected
    step,         \* index of the CREATE statement or _insert_many call in progress
    err,          \* the exception that ended the run, "" if none
    lrun          \* number of the Loader run

genVars  == <<args, gpc, rng, fakeRng, urandom, now, customers, products,
              orders, order_items, payments, totals, cur, todo, out, run, prev>>
loadVars == <<csv, keep_existing, lpc, db, txn, db0, step, err, lrun>>
vars     == <<genVars, loadVars>>

\* ---- bounds of the model ----
MaxCount   == 2     \* counts and max items range over -1..MaxCount
MaxSeed    == 1     \* seeds 0..MaxSeed
MaxEntropy == 1     \* initial states of the OS entropy source
MaxClock   == 1     \* wall-clock readings
MaxRows    == 2     \* data rows of the CSV file under study
MaxId      == 2     \* identifiers appearing in Loader input
MaxRuns    == 2     \* consecutive Loader runs against one database path

\* an absent file, and Python's None
NoFile  == [exists |-> FALSE]
NoneVal == "None"

FileNames == <<"customers", "products", "orders", "order_items", "payments">>

(***************************************************************************)
(* Pseudo-random sources                                                   *)
(***************************************************************************)
NextRandom(s) == (s * 75 + 74) % 65537

SeedState(seed) == seed % 65537

RandBelow(n, s) == s % n

RandInt(lo, hi, s) == lo + RandBelow(hi - lo + 1, s)

\* random.uniform(lo, hi), in mills
Uniform(lo, hi, s) == lo + ((s * 7553) % (hi - lo + 1))

\* random.choice(seq): seq[randbelow(len(seq))]; the caller checks emptiness
Choice(seq, s) == seq[1 + RandBelow(Len(seq), s)]

\* random.choices(population, weights)[0] with cumulative weights in percent
WeightedChoice(population, cum, s) ==
    LET r == s % 100
        k == Cardinality({i \in 1..Len(cum) : cum[i] <= r})
    IN  population[k + 1]

\* round(x, 2): to the nearest multiple of 10 mills, ties to even
Round2(m) ==
    LET q == m \div 10
        r == m % 10
    IN  IF r < 5 THEN q * 10
        ELSE IF r > 5 THEN (q + 1) * 10
        ELSE IF q % 2 = 0 THEN q * 10 ELSE (q + 1) * 10

\* uuid.uuid4(): the next value of the OS entropy stream
Uuid4(u) == (u * 171 + 11213) % 53125

\* uuid4().hex[:6]: the leading digits of the value
Hex6(u) == u \div 8

Lower(s) ==
    CASE s = "Ann"  -> "ann"
      [] s = "Bob"  -> "bob"
      [] s = "Lee"  -> "lee"
      [] s = "Kim"  -> "kim"
      [] OTHER      -> s

FirstNames   == <<"Ann", "Bob">>
LastNames    == <<"Lee", "Kim">>
Countries    == <<"Chile", "Ghana", "Nepal">>
CatchPhrases == <<"Agile widget", "Robust gadget">>

Categories     == <<"Electronics", "Apparel", "Home", "Sports", "Beauty">>
Statuses       == <<"pending", "processing", "fulfilled", "cancelled">>
StatusCum      == <<20, 70, 95, 100>>
PaymentMethods == <<"card", "paypal", "bank_transfer", "gift_card">>

(***************************************************************************)
(* Records of the five collections                                         *)
(***************************************************************************)
Customer(id, first, last, suffix, country) ==
    [id |-> id, first_name |-> first, last_name |-> last,
     email |-> <<Lower(first), Lower(last), suffix, "example.com">>,
     country |-> country]

Product(id, name, category, price) ==
    [id |-> id, name |-> name, category |-> category, price |-> price]

Order(id, customer, date, status) ==
    [id |-> id, customer_id |-> customer.id, order_date |-> date, status |-> status]

OrderItemBadRef(id, order, product, quantity) ==
    [id |-> id, order_id |-> id, product_id |-> product.id,
     quantity |-> quantity, unit_price |-> product.price]

OrderItem(id, order, product, quantity) ==
    [id |-> id, order_id |-> order.id, product_id |-> product.id,
     quantity |-> quantity, unit_price |-> product.price]

Payment(id, order, method, amount, hours) ==
    [id |-> id, order_id |-> order.id, payment_method |-> method,
     amount |-> amount, paid_at |-> order.order_date + hours]

\* number of line items of one order: random.randint(1, max_items_per_order)
ItemCountFromZero(max, s) == RandInt(0, max, s)

ItemCount(max, s) == RandInt(1, max, s)

\* totals.setdefault(order_id, 0); totals[order_id] += quantity * unit_price
AccumulateOverwrite(t, item) ==
    [k \in DOMAIN t \cup {item.order_id} |->
        IF k = item.order_id THEN item.quantity * item.unit_price ELSE t[k]]

Accumulate(t, item) ==
    LET base == IF item.order_id \in DOMAIN t THEN t[item.order_id] ELSE 0
    IN  [k \in DOMAIN t \cup {item.order_id} |->
            IF k = item.order_id
            THEN base + item.quantity * item.unit_price
            ELSE t[k]]

RECURSIVE TotalsFrom(_, _, _)
TotalsFrom(t, items, i) ==
    IF i > Len(items) THEN t
    ELSE TotalsFrom(Accumulate(t, items[i]), items, i + 1)

EmptyDict == [k \in {} |-> 0]

\* totals.get(order_id, 0)
DictGet(t, k) == IF k \in DOMAIN t THEN t[k] ELSE 0

(***************************************************************************)
(* CSV serialisation of the Generator                                      *)
(***************************************************************************)
IsoFormat(t) == <<"iso", t>>

Format2f(m) == <<Round2(m) \div 1000, (Round2(m) % 1000) \div 10>>

\* the csv writer's str() of a field
Str(v) == <<"str", v>>

CustomerRow(c) == <<Str(c.id), Str(c.first_name), Str(c.last_name), Str(c.email), Str(c.country)>>
ProductRow(p)  == <<Str(p.id), Str(p.name), Str(p.category), Str(p.price)>>
OrderRow(o)    == <<Str(o.id), Str(o.customer_id), IsoFormat(o.order_date), Str(o.status)>>
ItemRow(i)     == <<Str(i.id), Str(i.order_id), Str(i.product_id), Str(i.quantity), Str(i.unit_price)>>
PaymentRow(p)  == <<Str(p.id), Str(p.order_id), Str(p.payment_method), Format2f(p.amount), IsoFormat(p.paid_at)>>

Header(name) ==
    CASE name = "customers"   -> <<"id", "first_name", "last_name", "email", "country">>
      [] name = "products"    -> <<"id", "name", "category", "price">>
      [] name = "orders"      -> <<"id", "customer_id", "order_date", "status">>
      [] name = "order_items" -> <<"id", "order_id", "product_id", "quantity", "unit_price">>
      [] name = "payments"    -> <<"id", "order_id", "payment_method", "amount", "paid_at">>

\* _write_csv: the header row, then one row per record
WriteCsv(header, rows) == [exists |-> TRUE, header |-> header, rows |-> rows]

(***************************************************************************)
(* The Generator: main() of generate_synthetic_data.py                     *)
(***************************************************************************)
Counts  == {0 - 1} \cup (0..MaxCount)
Seeds   == 0..MaxSeed
Entropy == 0..MaxEntropy
Clocks  == {100000 + c : c \in 0..MaxClock}

NoCollections ==
    [customers |-> <<>>, products |-> <<>>, orders |-> <<>>,
     order_items |-> <<>>, payments |-> <<>>, now |-> 0]

EmptyDir == [f \in {FileNames[i] : i \in 1..Len(FileNames)} |-> NoFile]

\* argparse: every option is an int; nothing restricts its sign
ParseArgs ==
    [customers : Counts, products : Counts, orders : Counts,
     max_items_per_order : Counts, seed : Seeds]

GenInit ==
    /\ args \in ParseArgs
    /\ gpc = "seed"
    /\ rng = 0 /\ fakeRng = 0
    /\ urandom \in Entropy
    /\ now = 0
    /\ customers = <<>> /\ products = <<>> /\ orders = <<>>
    /\ order_items = <<>> /\ payments = <<>>
    /\ totals = EmptyDict
    /\ cur = 0 /\ todo = 0
    /\ out = EmptyDir
    /\ run = 1
    /\ prev = NoCollections

\* Faker.seed(args.seed); random.seed(args.seed)
SeedRandom ==
    /\ gpc = "seed"
    /\ rng' = SeedState(args.seed)
    /\ fakeRng' = SeedState(args.seed)
    /\ gpc' = "customers"
    /\ UNCHANGED <<args, urandom, now, customers, products, orders, order_items,
                   payments, totals, cur, todo, out, run, prev>>
    /\ UNCHANGED loadVars

generate_customers ==
    /\ gpc = "customers"
    /\ IF Len(customers) < args.customers
       THEN LET f1 == NextRandom(fakeRng)
                f2 == NextRandom(f1)
                f3 == NextRandom(f2)
                u1 == Uuid4(urandom)
                u2 == Uuid4(u1)
            IN  /\ customers' = Append(customers,
                       Customer(u2, Choice(FirstNames, f1), Choice(LastNames, f2),
                                Hex6(u1), Choice(Countries, f3)))
                /\ fakeRng' = f3
                /\ urandom' = u2
                /\ gpc' = gpc
       ELSE /\ gpc' = "products"
            /\ UNCHANGED <<customers, fakeRng, urandom>>
    /\ UNCHANGED <<args, rng, now, products, orders, order_items, payments,
                   totals, cur, todo, out, run, prev>>
    /\ UNCHANGED loadVars

generate_products ==
    /\ gpc = "products"
    /\ IF Len(products) < args.products
       THEN LET r1 == NextRandom(rng)
                r2 == NextRandom(r1)
                f1 == NextRandom(fakeRng)
                u1 == Uuid4(urandom)
            IN  /\ products' = Append(products,
                       Product(u1, Choice(CatchPhrases, f1), Choice(Categories, r1),
                               Round2(Uniform(5000, 500000, r2))))
                /\ rng' = r2
                /\ fakeRng' = f1
                /\ urandom' = u1
                /\ gpc' = gpc
       ELSE /\ gpc' = "orders_begin"
            /\ UNCHANGED <<products, rng, fakeRng, urandom>>
    /\ UNCHANGED <<args, now, customers, orders, order_items, payments,
                   totals, cur, todo, out, run, prev>>
    /\ UNCHANGED loadVars

generate_orders ==
    \/ /\ gpc = "orders_begin"
       /\ now' \in Clocks
       /\ gpc' = "orders"
       /\ UNCHANGED <<args, rng, fakeRng, urandom, customers, products, orders,
                      order_items, payments, totals, cur, todo, out, run, prev>>
       /\ UNCHANGED loadVars
    \/ /\ gpc = "orders"
       /\ IF Len(orders) < args.orders
          THEN LET r1 == NextRandom(rng)
                   r2 == NextRandom(r1)
                   r3 == NextRandom(r2)
                   u1 == Uuid4(urandom)
               IN  IF customers = <<>>
                   THEN \* random.choice([]) raises IndexError
                        /\ gpc' = "failed"
                        /\ rng' = r1
                        /\ urandom' = u1
                        /\ UNCHANGED orders
                   ELSE /\ orders' = Append(orders,
                               Order(u1, Choice(customers, r2),
                                     now - 24 * RandInt(0, 180, r1),
                                     WeightedChoice(Statuses, StatusCum, r3)))
                        /\ rng' = r3
                        /\ urandom' = u1
                        /\ gpc' = gpc
          ELSE /\ gpc' = "items"
               /\ UNCHANGED <<orders, rng, urandom>>
       /\ UNCHANGED <<args, now, fakeRng, customers, products, order_items,
                      payments, totals, cur, todo, out, run, prev>>
       /\ UNCHANGED loadVars

\* cur = number of orders whose items are complete; todo = items still to
\* generate for order cur + 1, or 0 when its range has not been drawn yet
generate_order_items ==
    /\ gpc = "items"
    /\ IF cur >= Len(orders)
       THEN /\ gpc' = "payments_begin"
            /\ cur' = 0
            /\ UNCHANGED <<rng, urandom, order_items, todo>>
       ELSE IF todo = 0
       THEN \* for _ in range(random.randint(1, max_items_per_order))
            IF args.max_items_per_order < 1
            THEN \* randint raises ValueError on an empty range
                 /\ gpc' = "failed"
                 /\ UNCHANGED <<rng, urandom, order_items, todo, cur>>
            ELSE LET r1 == NextRandom(rng)
                     n  == ItemCount(args.max_items_per_order, r1)
                 IN  /\ rng' = r1
                     /\ IF n <= 0
                        THEN cur' = cur + 1 /\ todo' = 0
                        ELSE cur' = cur /\ todo' = n
                     /\ UNCHANGED <<gpc, urandom, order_items>>
       ELSE LET r1 == NextRandom(rng)
                r2 == NextRandom(r1)
                u1 == Uuid4(urandom)
            IN  IF products = <<>>
                THEN \* random.choice([]) raises IndexError
                     /\ gpc' = "failed"
                     /\ UNCHANGED <<rng, urandom, order_items, todo, cur>>
                ELSE /\ order_items' = Append(order_items,
                            OrderItem(u1, orders[cur + 1], Choice(products, r1),
                                      RandInt(1, 5, r2)))
                     /\ rng' = r2
                     /\ urandom' = u1
                     /\ todo' = todo - 1
                     /\ cur' = IF todo = 1 THEN cur + 1 ELSE cur
                     /\ gpc' = gpc
    /\ UNCHANGED <<args, now, fakeRng, customers, products, orders, payments,
                   totals, out, run, prev>>
    /\ UNCHANGED loadVars

generate_payments ==
    \/ /\ gpc = "payments_begin"
       /\ totals' = TotalsFrom(EmptyDict, order_items, 1)
       /\ gpc' = "payments"
       /\ UNCHANGED <<args, rng, fakeRng, urandom, now, customers, products, orders,
                      order_items, payments, cur, todo, out, run, prev>>
       /\ UNCHANGED loadVars
    \/ /\ gpc = "payments"
       /\ IF Len(payments) < Len(orders)
          THEN LET order == orders[Len(payments) + 1]
                   r1 == NextRandom(rng)
                   r2 == NextRandom(r1)
                   u1 == Uuid4(urandom)
               IN  /\ payments' = Append(payments,
                          Payment(u1, order, Choice(PaymentMethods, r1),
                                  Round2(DictGet(totals, order.id)),
                                  RandInt(1, 48, r2)))
                   /\ rng' = r2
                   /\ urandom' = u1
                   /\ UNCHANGED <<gpc, cur>>
          ELSE /\ gpc' = "write"
               /\ cur' = 1
               /\ UNCHANGED <<payments, rng, urandom>>
       /\ UNCHANGED <<args, now, fakeRng, customers, products, orders, order_items,
                      totals, todo, out, run, prev>>
       /\ UNCHANGED loadVars

RowsOf(name) ==
    CASE name = "customers"   -> [i \in 1..Len(customers) |-> CustomerRow(customers[i])]
      [] name = "products"    -> [i \in 1..Len(products) |-> ProductRow(products[i])]
      [] name = "orders"      -> [i \in 1..Len(orders) |-> OrderRow(orders[i])]
      [] name = "order_items" -> [i \in 1..Len(order_items) |-> ItemRow(order_items[i])]
      [] name = "payments"    -> [i \in 1..Len(payments) |-> PaymentRow(payments[i])]

\* the five _write_csv calls of main(), one file per step, then the print
write_files ==
    /\ gpc = "write"
    /\ IF cur <= Len(FileNames)
       THEN /\ out' = [out EXCEPT ![FileNames[cur]] =
                          WriteCsv(Header(FileNames[cur]), RowsOf(FileNames[cur]))]
            /\ cur' = cur + 1
            /\ gpc' = gpc
       ELSE /\ gpc' = "done"
            /\ UNCHANGED <<out, cur>>
    /\ UNCHANGED <<args, rng, fakeRng, urandom, now, customers, products, orders,
                   order_items, payments, totals, todo, run, prev>>
    /\ UNCHANGED loadVars

Collections ==
    [customers |-> customers, products |-> products, orders |-> orders,
     order_items |-> order_items, payments |-> payments, now |-> now]

\* a second process started with the same options and a new output directory
Rerun ==
    /\ gpc = "done"
    /\ run = 1
    /\ run' = 2
    /\ prev' = Collections
    /\ gpc' = "seed"
    /\ rng' = 0 /\ fakeRng' = 0
    /\ urandom' \in Entropy
    /\ now' = 0
    /\ customers' = <<>> /\ products' = <<>> /\ orders' = <<>>
    /\ order_items' = <<>> /\ payments' = <<>>
    /\ totals' = EmptyDict
    /\ cur' = 0 /\ todo' = 0
    /\ out' = EmptyDir
    /\ UNCHANGED args
    /\ UNCHANGED loadVars

GenNext ==
    \/ SeedRandom
    \/ generate_customers
    \/ generate_products
    \/ generate_orders
    \/ generate_order_items
    \/ generate_payments
    \/ write_files
    \/ Rerun

(***************************************************************************)
(* The Loader: ingest_to_sqlite.py                                         *)
(***************************************************************************)
Tables == {FileNames[i] : i \in 1..Len(FileNames)}

Range(s) == {s[i] : i \in 1..Len(s)}

\* CREATE_STATEMENTS: the columns of each table, in declaration order
Columns(t) == Header(t)

\* every column but the TEXT PRIMARY KEY is declared NOT NULL
NotNullColumns(t) == Range(Columns(t)) \ {"id"}

\* REFERENCES clauses: <<column, parent table>>
References(t) ==
    CASE t = "orders"      -> {<<"customer_id", "customers">>}
      [] t = "order_items" -> {<<"order_id", "orders">>, <<"product_id", "products">>}
      [] t = "payments"    -> {<<"order_id", "orders">>}
      [] OTHER             -> {}

\* sqlite3.connect(db_path) issues no PRAGMA foreign_keys, so the
\* REFERENCES clauses are parsed and not enforced
ForeignKeysOn == FALSE

NoDb    == [exists |-> FALSE, tables |-> [t \in {} |-> <<>>]]
EmptyDb == [exists |-> TRUE,  tables |-> [t \in {} |-> <<>>]]

\* key None under which csv.DictReader files the surplus fields of a row
RestKey == "<restkey>"

IndexOf(h, c) == CHOOSE i \in 1..Len(h) : h[i] = c

\* names of the keys of one DictReader row, in order
RowKeys(header, row) ==
    IF Len(row) > Len(header) THEN Append(header, RestKey) ELSE header

\* one row of csv.DictReader: dict(zip(fieldnames, row)), surplus fields
\* under restkey, missing fields set to restval (None)
DictRow(header, row) ==
    [c \in Range(RowKeys(header, row)) |->
        IF c = RestKey THEN "<surplus>"
        ELSE IF IndexOf(header, c) <= Len(row) THEN row[IndexOf(header, c)]
        ELSE NoneVal]

\* _load_csv_rows: DictReader skips rows without any field
LoadCsvRows(file) ==
    LET kept == SelectSeq(file.rows, LAMBDA r : r # <<>>)
    IN  [i \in 1..Len(kept) |->
            [keys |-> RowKeys(file.header, kept[i]),
             dict |-> DictRow(file.header, kept[i])]]

\* the same, taking the values in the table's declared column order
StoredRowByPosition(t, columns, d) ==
    [c \in Range(Columns(t)) |->
        IF IndexOf(Columns(t), c) <= Len(columns)
        THEN d[columns[IndexOf(Columns(t), c)]] ELSE NoneVal]

\* the record stored by INSERT INTO table (columns) VALUES (values)
StoredRow(t, columns, d) ==
    [c \in Range(Columns(t)) |-> IF c \in Range(columns) THEN d[c] ELSE NoneVal]

\* the constraint an inserted record breaks, "" if none
Violation(view, t, r) ==
    IF \E c \in NotNullColumns(t) : r[c] = NoneVal
        THEN "IntegrityError"
    ELSE IF r["id"] # NoneVal /\ \E i \in 1..Len(view[t]) : view[t][i]["id"] = r["id"]
        THEN "IntegrityError"
    ELSE IF ForeignKeysOn /\ \E ref \in References(t) :
                \A i \in 1..Len(view[ref[2]]) : view[ref[2]][i]["id"] # r[ref[1]]
        THEN "IntegrityError"
    ELSE ""

\* conn.executemany: one INSERT per row, stopping at the first that fails
RECURSIVE ExecuteMany(_, _, _, _, _)
ExecuteMany(view, t, columns, rows, i) ==
    IF i > Len(rows) THEN [err |-> "", view |-> view]
    ELSE LET r == StoredRow(t, columns, rows[i].dict)
             v == Violation(view, t, r)
         IN  IF v # "" THEN [err |-> v, view |-> view]
             ELSE ExecuteMany([view EXCEPT ![t] = Append(@, r)], t, columns, rows, i + 1)

\* _insert_many(conn, table, _load_csv_rows(path))
InsertMany(view, t, file) ==
    IF ~file.exists THEN [err |-> "FileNotFoundError", view |-> view]
    ELSE LET rows == LoadCsvRows(file)
         IN  IF rows = <<>> THEN [err |-> "", view |-> view]
             ELSE LET columns == rows[1].keys
                  IN  IF RestKey \in Range(columns)
                          THEN [err |-> "TypeError", view |-> view]
                      ELSE IF ~(Range(columns) \subseteq Range(Columns(t)))
                          THEN [err |-> "OperationalError", view |-> view]
                      ELSE ExecuteMany(view, t, columns, rows, 1)

\* what the database file holds after a statement inside the implicit
\* transaction that sqlite3 opens before an INSERT: nothing new until commit
OnDiskAutocommit(disk, view) == view

OnDisk(disk, view) == disk

(***************************************************************************)
(* CSV directories given to the Loader                                     *)
(***************************************************************************)
Ids == 1..MaxId

Reverse(s) == [i \in 1..Len(s) |-> s[Len(s) + 1 - i]]

\* the text of one field: keys are numbers, any other column holds its name
Field(c, id, ref) ==
    IF c = "id" THEN ToString(id)
    ELSE IF c \in {"customer_id", "order_id", "product_id"} THEN ToString(ref)
    ELSE c

CsvRow(h, id, ref) == [i \in 1..Len(h) |-> Field(h[i], id, ref)]

\* a file as the Generator lays it out: n rows, keys off+1..off+n
PlainFile(t, n, off) ==
    [exists |-> TRUE, header |-> Header(t),
     rows |-> [j \in 1..n |-> CsvRow(Header(t), off + j, off + j)]]

\* rows tried in the file under study: every key and reference, plus a row
\* one field short and a row one field long
Candidates(h) ==
    {CsvRow(h, id, ref) : id \in Ids, ref \in Ids}
    \cup {SubSeq(CsvRow(h, MaxId, 1), 1, Len(h) - 1),
          Append(CsvRow(h, MaxId, 1), "extra")}

SeqsUpTo(S, n) == UNION {[1..k -> S] : k \in 0..n}

StudiedFiles(t) ==
    {NoFile} \cup
    {[exists |-> TRUE, header |-> h, rows |-> rs] :
        h \in {Header(t)}, rs \in SeqsUpTo(Candidates(Header(t)), MaxRows)} \cup
    {[exists |-> TRUE, header |-> h, rows |-> rs] :
        h \in {Reverse(Header(t))}, rs \in SeqsUpTo(Candidates(Reverse(Header(t))), MaxRows)}

\* one file under study, the other four plain with n rows each
CsvDirs ==
    {[u \in Tables |-> IF u = sf[1] THEN sf[2] ELSE PlainFile(u, n, 0)] :
        n \in 0..MaxRows,
        sf \in UNION {{<<t, f>> : f \in StudiedFiles(t)} : t \in Tables}}

\* a further batch whose keys are all new
NextDirs == {[u \in Tables |-> PlainFile(u, n, MaxId)] : n \in 0..MaxRows}

LoadInit ==
    /\ csv \in CsvDirs
    /\ keep_existing \in BOOLEAN
    /\ lpc = "start"
    /\ db = NoDb
    /\ txn = NoDb.tables
    /\ db0 = NoDb
    /\ step = 1
    /\ err = ""
    /\ lrun = 1

\* main(), up to sqlite3.connect: unlink the old file unless --keep-existing,
\* then open (and so create) the database file
Connect ==
    /\ lpc = "start"
    /\ LET kept == IF db.exists /\ ~keep_existing THEN NoDb ELSE db
           file == IF kept.exists THEN kept ELSE EmptyDb
       IN  /\ db' = file
           /\ db0' = file
           /\ txn' = file.tables
    /\ lpc' = "create"
    /\ step' = 1
    /\ UNCHANGED <<csv, keep_existing, err, lrun>>
    /\ UNCHANGED genVars

\* for statement in CREATE_STATEMENTS: conn.execute(statement)
\* DDL runs outside any transaction, so each table is on disk at once
CreateTable ==
    /\ lpc = "create"
    /\ LET t == FileNames[step]
       IN  IF t \in DOMAIN db.tables
           THEN \* "table ... already exists"; finally: conn.close()
                /\ err' = "OperationalError"
                /\ lpc' = "failed"
                /\ UNCHANGED <<db, txn, step>>
           ELSE /\ db' = [db EXCEPT !.tables =
                            [u \in DOMAIN db.tables \cup {t} |->
                                IF u = t THEN <<>> ELSE db.tables[u]]]
                /\ txn' = db'.tables
                /\ IF step = Len(FileNames)
                   THEN lpc' = "insert" /\ step' = 1
                   ELSE lpc' = "create" /\ step' = step + 1
                /\ UNCHANGED err
    /\ UNCHANGED <<csv, keep_existing, db0, lrun>>
    /\ UNCHANGED genVars

\* the five _insert_many calls of main(), one per step
InsertFile ==
    /\ lpc = "insert"
    /\ LET t == FileNames[step]
           res == InsertMany(txn, t, csv[t])
       IN  IF res.err # ""
           THEN \* the exception leaves main(); finally: conn.close() drops
                \* whatever was not committed
                /\ err' = res.err
                /\ lpc' = "failed"
                /\ txn' = db.tables
                /\ UNCHANGED <<db, step>>
           ELSE /\ txn' = res.view
                /\ db' = [db EXCEPT !.tables = OnDisk(db.tables, res.view)]
                /\ IF step = Len(FileNames)
                   THEN lpc' = "commit" /\ step' = step
                   ELSE lpc' = "insert" /\ step' = step + 1
                /\ UNCHANGED err
    /\ UNCHANGED <<csv, keep_existing, db0, lrun>>
    /\ UNCHANGED genVars

\* conn.commit(); print; finally: conn.close()
Commit ==
    /\ lpc = "commit"
    /\ db' = [db EXCEPT !.tables = txn]
    /\ lpc' = "done"
    /\ UNCHANGED <<csv, keep_existing, txn, db0, step, err, lrun>>
    /\ UNCHANGED genVars

\* the operator runs the Loader again on the same database path
NewRun ==
    /\ lpc \in {"done", "failed"}
    /\ lrun < MaxRuns
    /\ lrun' = lrun + 1
    /\ csv' \in NextDirs
    /\ keep_existing' \in BOOLEAN
    /\ lpc' = "start"
    /\ step' = 1
    /\ err' = ""
    /\ db0' = db
    /\ txn' = db.tables
    /\ UNCHANGED db
    /\ UNCHANGED genVars

LoadNext ==
    \/ Connect
    \/ CreateTable
    \/ InsertFile
    \/ Commit
    \/ NewRun

(***************************************************************************)
(* Specifications                                                          *)
(***************************************************************************)
GenIdle ==
    /\ args = [customers |-> 0, products |-> 0, orders |-> 0,
               max_items_per_order |-> 0, seed |-> 0]
    /\ gpc = "idle"
    /\ rng = 0 /\ fakeRng = 0 /\ urandom = 0 /\ now = 0
    /\ customers = <<>> /\ products = <<>> /\ orders = <<>>
    /\ order_items = <<>> /\ payments = <<>>
    /\ totals = EmptyDict
    /\ cur = 0 /\ todo = 0
    /\ out = EmptyDir
    /\ run = 1
    /\ prev = NoCollections

LoadIdle ==
    /\ csv = [u \in Tables |-> NoFile]
    /\ keep_existing = FALSE
    /\ lpc = "idle"
    /\ db = NoDb
    /\ txn = NoDb.tables
    /\ db0 = NoDb
    /\ step = 1
    /\ err = ""
    /\ lrun = 1

InitGen == GenInit /\ LoadIdle
NextGen == GenNext
SpecGen == InitGen /\ [][NextGen]_vars

InitLoad == LoadInit /\ GenIdle
NextLoad == LoadNext
SpecLoad == InitLoad /\ [][NextLoad]_vars

(***************************************************************************)
(* Properties of the Generator (checked under SpecGen)                     *)
(***************************************************************************)
ValidArgs ==
    /\ args.customers > 0 /\ args.products > 0 /\ args.orders > 0
    /\ args.max_items_per_order >= 1

Written(name) == out[name].exists

DataRows(name) == Len(out[name].rows)

\* C1: with positive counts and max_items >= 1 a run never fails, and when it
\* ends there are exactly C_cust customers, C_prod products, C_ord orders and
\* C_ord payments, between C_ord and C_ord * max_items order items, and each
\* of the five files holds its header and at least one data row.
C1_RowCounts ==
    ValidArgs =>
        /\ gpc # "failed"
        /\ gpc = "done" =>
            /\ Len(customers) = args.customers
            /\ Len(products) = args.products
            /\ Len(orders) = args.orders
            /\ Len(payments) = args.orders
            /\ Len(order_items) >= args.orders
            /\ Len(order_items) <= args.orders * args.max_items_per_order
            /\ \A f \in Tables : Written(f) /\ out[f].header = Header(f) /\ DataRows(f) >= 1
            /\ DataRows("customers") = args.customers
            /\ DataRows("products") = args.products
            /\ DataRows("orders") = args.orders
            /\ DataRows("payments") = args.orders
            /\ DataRows("order_items") = Len(order_items)

C1_Witness ==
    /\ gpc = "done" /\ ValidArgs
    /\ args.orders = MaxCount /\ args.max_items_per_order > 1
    /\ Len(order_items) > args.orders
    /\ Len(order_items) < args.orders * args.max_items_per_order

RECURSIVE SumItemsOf(_, _, _)
SumItemsOf(items, oid, i) ==
    IF i > Len(items) THEN 0
    ELSE (IF items[i].order_id = oid THEN items[i].quantity * items[i].unit_price ELSE 0)
         + SumItemsOf(items, oid, i + 1)

ItemsOfOrder(oid) == {i \in 1..Len(order_items) : order_items[i].order_id = oid}

\* C2: the amount of every payment is the sum of quantity * unit_price over
\* the generated order items carrying that payment's order id, rounded to two
\* decimals.
C2_PaymentAmount ==
    \A i \in 1..Len(payments) :
        payments[i].amount = Round2(SumItemsOf(order_items, payments[i].order_id, 1))

C2_Witness ==
    /\ gpc = "done"
    /\ \E i \in 1..Len(payments) :
          /\ Cardinality(ItemsOfOrder(payments[i].order_id)) >= 2
          /\ payments[i].amount > 0
    /\ \E i \in 1..Len(payments) : Cardinality(ItemsOfOrder(payments[i].order_id)) = 1

ColumnOf(name, c) ==
    {out[name].rows[i][IndexOf(out[name].header, c)] : i \in 1..DataRows(name)}

\* C3: in the files of a finished run with positive counts, every
\* order_items.order_id and payments.order_id is an orders.id, every
\* order_items.product_id is a products.id and every orders.customer_id is a
\* customers.id.
C3_ReferentialIntegrity ==
    (gpc = "done" /\ ValidArgs) =>
        /\ ColumnOf("order_items", "order_id") \subseteq ColumnOf("orders", "id")
        /\ ColumnOf("payments", "order_id") \subseteq ColumnOf("orders", "id")
        /\ ColumnOf("order_items", "product_id") \subseteq ColumnOf("products", "id")
        /\ ColumnOf("orders", "customer_id") \subseteq ColumnOf("customers", "id")

C3_Witness ==
    /\ gpc = "done" /\ ValidArgs
    /\ Cardinality(ColumnOf("order_items", "order_id")) >= 2
    /\ Cardinality(ColumnOf("customers", "id")) >= 2
    /\ Cardinality(ColumnOf("products", "id")) >= 2

WithoutField(rows, f) ==
    [i \in 1..Len(rows) |-> [c \in (DOMAIN rows[i]) \ {f} |-> rows[i][c]]]

NonTimestampFields(c) ==
    [customers   |-> c.customers,
     products    |-> c.products,
     orders      |-> WithoutField(c.orders, "order_date"),
     order_items |-> c.order_items,
     payments    |-> WithoutField(c.payments, "paid_at")]

\* C4: two runs with the same seed, the same positive counts and the same reference
\* time agree on every field other than order_date and paid_at, identifiers
\* and e-mail addresses included.
C4_SameSeedSameFields ==
    (run = 2 /\ gpc = "done" /\ ValidArgs /\ prev.now = now) =>
        NonTimestampFields(prev) = NonTimestampFields(Collections)

\* C5: a run given a non-positive count or max items never finishes
\* successfully and never writes a CSV file.
C5_NonPositiveCountFails ==
    (~ValidArgs) => (gpc # "done" /\ \A f \in Tables : ~Written(f))

(***************************************************************************)
(* Properties of the Loader (checked under SpecLoad)                       *)
(***************************************************************************)
RowsAtConnect(t) == IF t \in DOMAIN db0.tables THEN db0.tables[t] ELSE <<>>

\* C6: until the single commit, and so after any run that failed, the
\* database file holds exactly the rows it held when the run connected: no
\* row of this run's CSV files, not even of the tables inserted before the
\* failure.
C6_NoPartialLoad ==
    (lpc # "done") => \A t \in DOMAIN db.tables : db.tables[t] = RowsAtConnect(t)

C6_Witness ==
    /\ lpc = "failed"
    /\ err = "IntegrityError"
    /\ step = Len(FileNames)
    /\ \A i \in 1..(Len(FileNames) - 1) :
          csv[FileNames[i]].exists /\ Len(csv[FileNames[i]].rows) > 0
    /\ \A t \in Tables : db.tables[t] = <<>>

HasId(rows, id) == \E i \in 1..Len(rows) : rows[i]["id"] = id

\* C7: after a run that reports success every stored foreign key names a
\* stored parent row.
C7_ForeignKeysEnforced ==
    (lpc = "done") =>
        \A t \in Tables : \A ref \in References(t) : \A i \in 1..Len(db.tables[t]) :
            HasId(db.tables[ref[2]], db.tables[t][i][ref[1]])

Mismatched(f) ==
    f.exists /\ \E i \in 1..Len(f.rows) : Len(f.rows[i]) # Len(f.header)

\* C8: a run fails whenever some data row of some CSV file has fewer or more
\* fields than the header of its file.
C8_FieldCountMismatchFails ==
    (\E t \in Tables : Mismatched(csv[t])) => lpc # "done"

IdsOf(rows) == {rows[i]["id"] : i \in 1..Len(rows)}

CsvIds(f) ==
    IF f.exists THEN {f.rows[i][IndexOf(f.header, "id")] : i \in 1..Len(f.rows)} ELSE {}

KeysDisjoint ==
    \A t \in Tables : CsvIds(csv[t]) \cap IdsOf(RowsAtConnect(t)) = {}

Min(a, b) == IF a < b THEN a ELSE b

\* the stored row r holds the fields of data row j of file f
FromCsvRow(r, f, j) ==
    \A k \in 1..Min(Len(f.header), Len(f.rows[j])) : r[f.header[k]] = f.rows[j][k]

\* the store found by this run holds the rows an earlier run committed
StoreHasRows == \A t \in Tables : RowsAtConnect(t) # <<>>

\* C9: with --keep-existing and a store filled by an earlier run, a run whose
\* keys are all new succeeds, keeps every stored row and adds the rows of the
\* five files; without the flag a successful run leaves only the rows of the
\* current files.
C9_KeepExistingReuses ==
    /\ (/\ lrun > 1 /\ keep_existing /\ lpc \in {"done", "failed"}
        /\ StoreHasRows /\ KeysDisjoint) =>
          /\ lpc = "done"
          /\ \A t \in Tables :
                /\ Range(RowsAtConnect(t)) \subseteq Range(db.tables[t])
                /\ CsvIds(csv[t]) \subseteq IdsOf(db.tables[t])
    /\ (lpc = "done" /\ ~keep_existing) =>
          \A t \in Tables : \A i \in 1..Len(db.tables[t]) :
              \E j \in 1..Len(csv[t].rows) : FromCsvRow(db.tables[t][i], csv[t], j)

WellFormed(f) ==
    /\ f.exists
    /\ \A i \in 1..Len(f.rows) : Len(f.rows[i]) = Len(f.header)

\* C10: after a successful run without --keep-existing over five well-formed
\* files, each table holds one row per data row of its file, in file order,
\* every field stored under the column its header names; a header-only file
\* leaves its table empty.
C10_RoundTrip ==
    (lpc = "done" /\ ~keep_existing /\ \A t \in Tables : WellFormed(csv[t])) =>
        \A t \in Tables :
            /\ Len(db.tables[t]) = Len(csv[t].rows)
            /\ \A i \in 1..Len(csv[t].rows) : \A k \in 1..Len(csv[t].header) :
                  db.tables[t][i][csv[t].header[k]] = csv[t].rows[i][k]

C10_Witness ==
    /\ lpc = "done" /\ ~keep_existing
    /\ \A t \in Tables : WellFormed(csv[t])
    /\ \E t \in Tables : csv[t].header # Header(t) /\ Len(csv[t].rows) = MaxRows
    /\ \E t \in Tables : Len(csv[t].rows) = 0 /\ db.tables[t] = <<>>

====
